---------------------------- MODULE Spec2Model ----------------------------
(***************************************************************************)
(* caldav2pal: conversion of iCalendar events and vCard birthdays to pal   *)
(* event lines, the update decision, and the run over configured sources.  *)
(*                                                                         *)
(* Text is modelled as sequences of one-character strings, a file as the   *)
(* sequence of its lines (each without its trailing newline).  A datetime  *)
(* is a record of its calendar fields plus tzinfo (<<>> when naive, <<o>>  *)
(* when aware with utc offset o seconds); the machine's local timezone is  *)
(* a fixed utc offset (the variable localtz).                              *)
(***************************************************************************)
EXTENDS Integers, Sequences, FiniteSets, TLC

VARIABLES
    localtz,    \* utc offset (seconds) of the machine's local timezone
    files,      \* the pal files: path -> <<>> (absent) or <<[mtime, lines]>>
    now,        \* the clock, in days
    event,      \* the icalendar event handed to _convert_event
    contact,    \* the vcard contact handed to _convert_contact
    call,       \* the arguments of does_file_need_update
    result,     \* the value does_file_need_update returned
    pal_file,   \* the lines written to the open pal file (TextIO)
    raised,     \* the exception that left the conversion, "none" if none
    step,       \* position of the conversion under check
    configs,    \* the config files: path -> <<>> (absent) or <<sections>>
    args,       \* the parsed command line of the current run
    pc,         \* position of main
    sections,   \* config.sections() of the config file being run through
    section,    \* index of the next section, 0 before the config is opened
    exit_code,  \* "running", "success", or "traceback" (uncaught exception)
    last,       \* record of the latest call of _convert_contacts/_convert_calendar
    processed,  \* the <<category, section>> calls made in the current run
    runs,       \* number of runs started
    writes      \* per pal file, the conversion that wrote it last (<<>> if none)

funVars == <<event, contact, call, result, pal_file, step>>

runVars == <<configs, args, pc, sections, section, exit_code, last, processed, runs,
             writes>>

vars == <<localtz, files, now, raised, funVars, runVars>>

-----------------------------------------------------------------------------
(* Bounds *)

\* Dates of the modelled events range over FirstDay .. FirstDay + MaxDay.
MaxDay == 3

\* Birthday fields per contact range over 0 .. MaxBdays.
MaxBdays == 2

\* The clock of the update decision starts in 0 .. MaxClock.
MaxClock == 2

\* The program is run at most MaxRuns times.
MaxRuns == 2

-----------------------------------------------------------------------------
(* Text *)

Digits == <<"0", "1", "2", "3", "4", "5", "6", "7", "8", "9">>

Digit(n) == Digits[n + 1]

IsDigit(c) == \E i \in 1..10 : Digits[i] = c

AllDigits(s) == \A i \in 1..Len(s) : IsDigit(s[i])

Whitespace == {" ", "\t", "\n", "\r"}

\* f"{n:02d}" and the zero-padded fields of datetime.__str__
Pad2(n) == <<Digit((n \div 10) % 10), Digit(n % 10)>>

Pad4(n) == <<Digit((n \div 1000) % 10), Digit((n \div 100) % 10)>> \o Pad2(n % 100)

\* str(n) of a non-negative integer: decimal, no leading zeros
RECURSIVE StrInt(_)
StrInt(n) == IF n < 10 THEN <<Digit(n)>> ELSE StrInt(n \div 10) \o <<Digit(n % 10)>>

\* s.replace(old, '') for a one-character old
Replace(s, old) == SelectSeq(s, LAMBDA c : c # old)

\* s.isspace(): at least one character and all of them whitespace
IsSpace(s) == Len(s) > 0 /\ \A i \in 1..Len(s) : s[i] \in Whitespace

-----------------------------------------------------------------------------
(* datetime.date / datetime.datetime / timedelta *)

IsLeap(y) == (y % 4 = 0) /\ ((y % 100 # 0) \/ (y % 400 = 0))

DaysInMonth(y, m) ==
    IF m = 2 THEN (IF IsLeap(y) THEN 29 ELSE 28)
    ELSE IF m \in {4, 6, 9, 11} THEN 30 ELSE 31

\* Days of the year before the first of month m
DaysBeforeMonth(y, m) ==
    <<0, 31, 59, 90, 120, 151, 181, 212, 243, 273, 304, 334>>[m]
    + (IF m > 2 /\ IsLeap(y) THEN 1 ELSE 0)

DaysBeforeYear(y) ==
    (y - 1) * 365 + (y - 1) \div 4 - (y - 1) \div 100 + (y - 1) \div 400

\* date.toordinal(): 0001-01-01 is day 1
toordinal(d) == DaysBeforeYear(d.year) + DaysBeforeMonth(d.year, d.month) + d.day

\* date.fromordinal(n)
fromordinal(n) ==
    LET n0    == n - 1
        n400  == n0 \div 146097
        r400  == n0 % 146097
        n100  == r400 \div 36524
        r100  == r400 % 36524
        n4    == r100 \div 1461
        r4    == r100 % 1461
        n1    == r4 \div 365
        r1    == r4 % 365
        y     == n400 * 400 + n100 * 100 + n4 * 4 + n1 + 1
        guess == (r1 + 50) \div 32
        m     == IF DaysBeforeMonth(y, guess) > r1 THEN guess - 1 ELSE guess
    IN  IF n1 = 4 \/ n100 = 4
        THEN [year |-> y - 1, month |-> 12, day |-> 31]
        ELSE [year |-> y, month |-> m, day |-> r1 - DaysBeforeMonth(y, m) + 1]

\* type(x) is date: a datetime.date that is not a datetime.datetime
IsDate(x) == x.type = "date"

Date(y, m, d) == [type |-> "date", year |-> y, month |-> m, day |-> d]

DateTime(y, m, d, hh, mm, ss, tz) ==
    [type |-> "datetime", year |-> y, month |-> m, day |-> d,
     hour |-> hh, minute |-> mm, second |-> ss, tzinfo |-> tz]

\* datetime.min.time()
MinTime == [hour |-> 0, minute |-> 0, second |-> 0]

\* datetime.combine(date, time): a naive datetime
combine(d, t) == DateTime(d.year, d.month, d.day, t.hour, t.minute, t.second, <<>>)

SecondOfDay(dt) == dt.hour * 3600 + dt.minute * 60 + dt.second

\* The datetime `secs` seconds (|secs| < 2 days) after the wall-clock reading of
\* dt, with tzinfo tz.
Shift(dt, secs, tz) ==
    LET total == SecondOfDay(dt) + secs + 2 * 86400
        ord   == toordinal(dt) + (total \div 86400) - 2
        sod   == total % 86400
        d     == fromordinal(ord)
    IN  DateTime(d.year, d.month, d.day,
                 sod \div 3600, (sod % 3600) \div 60, sod % 60, tz)

\* dt.astimezone(): the same instant in the local timezone; a naive datetime is
\* taken to be local time already.
astimezone(dt) ==
    IF dt.tzinfo = <<>>
    THEN [dt EXCEPT !.tzinfo = <<localtz>>]
    ELSE Shift(dt, localtz - dt.tzinfo[1], <<localtz>>)

\* dt - timedelta(seconds = n) on an aware datetime: wall-clock arithmetic
MinusSeconds(dt, n) == Shift(dt, 0 - n, dt.tzinfo)

\* The instant of an aware datetime as <<utc day ordinal, utc second of day>>
Instant(dt) ==
    LET u == Shift(dt, 0 - dt.tzinfo[1], <<0>>)
    IN  <<toordinal(u), SecondOfDay(u)>>

\* a > b on aware datetimes compares instants
After(a, b) ==
    LET ia == Instant(a)
        ib == Instant(b)
    IN  ia[1] > ib[1] \/ (ia[1] = ib[1] /\ ia[2] > ib[2])

\* dt.date()
DateOf(dt) == Date(dt.year, dt.month, dt.day)

\* str(dt) of an aware datetime without microseconds:
\* "YYYY-MM-DD HH:MM:SS+HH:MM"
StrDateTime(dt) ==
    LET off  == dt.tzinfo[1]
        aoff == IF off < 0 THEN 0 - off ELSE off
    IN  Pad4(dt.year) \o <<"-">> \o Pad2(dt.month) \o <<"-">> \o Pad2(dt.day)
        \o <<" ">> \o Pad2(dt.hour) \o <<":">> \o Pad2(dt.minute)
        \o <<":">> \o Pad2(dt.second)
        \o <<IF off < 0 THEN "-" ELSE "+">>
        \o Pad2(aoff \div 3600) \o <<":">> \o Pad2((aoff % 3600) \div 60)

-----------------------------------------------------------------------------
(* calendars2events.py *)

\* Mutant: one date-only bound is enough to be all-day.
IsAllDayEither(ev) == IsDate(ev["DTSTART"]) \/ IsDate(ev["DTEND"])

_is_all_day(ev) == IsDate(ev["DTSTART"]) /\ IsDate(ev["DTEND"])

_get_start_datetime(ev) ==
    IF IsDate(ev["DTSTART"])
    THEN astimezone(combine(ev["DTSTART"], MinTime))
    ELSE astimezone(ev["DTSTART"])

\* The end datetime before the clamp: a date-only DTEND is exclusive, so it is
\* expanded to local midnight and reduced by one second.
EndBeforeClamp(ev) ==
    IF IsDate(ev["DTEND"])
    THEN MinusSeconds(astimezone(combine(ev["DTEND"], MinTime)), 1)
    ELSE astimezone(ev["DTEND"])

\* Mutant: the date-only end is not reduced by one second.
EndDatetimeExclusive(ev) ==
    LET end_datetime ==
            IF IsDate(ev["DTEND"])
            THEN astimezone(combine(ev["DTEND"], MinTime))
            ELSE astimezone(ev["DTEND"])
        start_datetime == _get_start_datetime(ev)
    IN  IF After(start_datetime, end_datetime) THEN start_datetime ELSE end_datetime

\* Mutant: the end is returned without the clamp to the start.
EndDatetimeUnclamped(ev) == EndBeforeClamp(ev)

_get_end_datetime(ev) ==
    LET end_datetime   == EndBeforeClamp(ev)
        start_datetime == _get_start_datetime(ev)
    IN  IF After(start_datetime, end_datetime) THEN start_datetime ELSE end_datetime

_is_multiple_days(ev) ==
    DateOf(_get_start_datetime(ev)) # DateOf(_get_end_datetime(ev))

\* str(dt).replace('-', '')[:8]
DateField(dt) == SubSeq(Replace(StrDateTime(dt), "-"), 1, 8)

\* Mutant: the time slice is one character short.
TimeFieldShort(dt) == SubSeq(Replace(StrDateTime(dt), "-"), 10, 13)

\* str(dt).replace('-', '')[9:14]
TimeField(dt) == SubSeq(Replace(StrDateTime(dt), "-"), 10, 14)

NoTitle == <<"[", "E", "v", "e", "n", "t", " ", "w", "i", "t", "h", "o", "u", "t",
             " ", "t", "i", "t", "l", "e", "]">>

\* name = event["SUMMARY"], replaced by the placeholder if empty
EventName(ev) ==
    LET name == ev["SUMMARY"]
    IN  IF IsSpace(name) \/ Len(name) = 0 THEN NoTitle ELSE name

\* The four pal_file.write cases of _convert_event
WriteCase(ev, name, start_date, end_date, start_time, end_time) ==
    IF _is_all_day(ev)
    THEN IF _is_multiple_days(ev)
         THEN <<"D", "A", "I", "L", "Y", ":">> \o start_date \o <<":">>
              \o end_date \o <<" ">> \o name
         ELSE start_date \o <<" ">> \o name
    ELSE IF _is_multiple_days(ev)
         THEN start_date \o <<" ", "[">> \o start_time \o <<"]", " ">> \o name
         ELSE start_date \o <<" ", "[">> \o start_time \o <<"-">> \o end_time
              \o <<"]", " ">> \o name

\* Start and end split into date and time
SplitAndWrite(ev, name, start_datetime, end_datetime) ==
    WriteCase(ev, name, DateField(start_datetime), DateField(end_datetime),
              TimeField(start_datetime), TimeField(end_datetime))

\* The line _convert_event writes for an event that has a SUMMARY
EventLine(ev) ==
    SplitAndWrite(ev, EventName(ev), _get_start_datetime(ev), _get_end_datetime(ev))

\* _convert_event(pal_file, event): the file after the call and the exception
\* that left it.  event["SUMMARY"] on an event without that property raises
\* KeyError before anything is written.
_convert_event(file, ev) ==
    IF "SUMMARY" \notin DOMAIN ev
    THEN [pal_file |-> file, raised |-> "KeyError"]
    ELSE [pal_file |-> Append(file, EventLine(ev)), raised |-> "none"]

-----------------------------------------------------------------------------
(* Inputs of the event conversion *)

FirstDay == Date(2024, 2, 29)

Days == {fromordinal(toordinal(FirstDay) + k) : k \in 0..MaxDay}

Times == {<<0, 0, 0>>, <<9, 5, 0>>, <<23, 59, 59>>}

\* tzinfo of a DTSTART/DTEND date-time: floating, UTC, or +02:00
TzInfos == {<<>>, <<0>>, <<7200>>}

LocalTimezones == {0 - 18000, 0, 3600}

DtValues ==
    {Date(d.year, d.month, d.day) : d \in Days}
    \cup {DateTime(d.year, d.month, d.day, t[1], t[2], t[3], z) :
            d \in Days, t \in Times, z \in TzInfos}

Lunch == <<"L", "u", "n", "c", "h">>

Summaries == {<<>>, <<" ">>, <<" ", "\t">>, Lunch, <<" ", "a">>}

Events ==
    {[DTSTART |-> s, DTEND |-> e] : s \in DtValues, e \in DtValues}
    \cup {[DTSTART |-> s, DTEND |-> e, SUMMARY |-> n] :
            s \in DtValues, e \in DtValues, n \in Summaries}

-----------------------------------------------------------------------------
(* Values of the variables a conversion under check does not use *)

PalPaths == {"a.pal", "b.pal"}

NoContact == [bday |-> <<>>]

NoEvent == [DTSTART |-> FirstDay, DTEND |-> FirstDay]

NoFiles == [p \in PalPaths |-> <<>>]

NoCall == [file |-> "a.pal", response |-> [headers |-> <<>>], max_age |-> <<>>]

ConfigPaths == {"contacts.conf", "calendars.conf", "my_contacts.conf", "my_calendars.conf"}

NoArgs == [no_default |-> FALSE, calendars_config |-> <<>>, contacts_config |-> <<>>]

NoWrites == [p \in PalPaths |-> <<>>]

NoLast ==
    [category |-> "none", index |-> 0, source |-> <<>>, response |-> <<>>,
     outcome |-> "none", parsed |-> FALSE, before |-> <<>>, previous |-> <<>>]

\* The run-level variables while a single conversion or decision is checked
IdleRun ==
    /\ configs = [p \in ConfigPaths |-> <<>>]
    /\ args = NoArgs
    /\ pc = "none"
    /\ sections = <<>>
    /\ section = 0
    /\ exit_code = "running"
    /\ last = NoLast
    /\ processed = <<>>
    /\ runs = 0
    /\ writes = NoWrites

-----------------------------------------------------------------------------
(* The conversion of one event occurrence *)

InitEvent ==
    /\ IdleRun
    /\ localtz \in LocalTimezones
    /\ event \in Events
    /\ pal_file = <<>>
    /\ raised = "none"
    /\ step = "ready"
    /\ contact = NoContact
    /\ call = NoCall
    /\ result = FALSE
    /\ files = NoFiles
    /\ now = 0

ConvertEvent ==
    /\ step = "ready"
    /\ \E r \in {_convert_event(pal_file, event)} :
           /\ pal_file' = r.pal_file
           /\ raised' = r.raised
    /\ step' = "done"
    /\ UNCHANGED <<localtz, files, now, event, contact, call, result, runVars>>

NextEvent == ConvertEvent

SpecEvent == InitEvent /\ [][NextEvent]_vars

-----------------------------------------------------------------------------
(* contacts2birthdays.py *)

DigitVal(c) == (CHOOSE i \in 1..10 : Digits[i] = c) - 1

\* int(s) of a string of digits
RECURSIVE Num(_)
Num(s) == IF s = <<>> THEN 0 ELSE 10 * Num(SubSeq(s, 1, Len(s) - 1)) + DigitVal(s[Len(s)])

\* datetime.strptime(value, "%Y-%m-%d"): four digits, '-', a month of one or
\* two digits, '-', a day of one or two digits, nothing else; the fields must
\* name a date that exists.  ok is FALSE where strptime raises ValueError.
strptime(value) ==
    LET bad   == [ok |-> FALSE, year |-> 0, month |-> 0, day |-> 0]
        rest  == SubSeq(value, 6, Len(value))
        seps  == {i \in 1..Len(rest) : rest[i] = "-"}
        p     == CHOOSE i \in seps : \A j \in seps : i <= j
        ms    == SubSeq(rest, 1, p - 1)
        ds    == SubSeq(rest, p + 1, Len(rest))
        y     == Num(SubSeq(value, 1, 4))
        m     == Num(ms)
        d     == Num(ds)
    IN  IF Len(value) < 8 \/ ~AllDigits(SubSeq(value, 1, 4)) \/ value[5] # "-"
           \/ seps = {}
        THEN bad
        ELSE IF Len(ms) \notin {1, 2} \/ Len(ds) \notin {1, 2}
                \/ ~AllDigits(ms) \/ ~AllDigits(ds)
        THEN bad
        ELSE IF y < 1 \/ m \notin 1..12 \/ d < 1 \/ d > DaysInMonth(y, m)
        THEN bad
        ELSE [ok |-> TRUE, year |-> y, month |-> m, day |-> d]

\* bday.params.get("X-APPLE-OMIT-YEAR", [])
OmitYears(bday) ==
    IF "X-APPLE-OMIT-YEAR" \in DOMAIN bday.params
    THEN bday.params["X-APPLE-OMIT-YEAR"]
    ELSE <<>>

\* Mutant: the omit-year marker is ignored.
AgeStrAlways(bday_date, bday) ==
    <<",", " ">> \o StrInt(bday_date.year) \o <<" ", "(", "!">> \o StrInt(bday_date.year) \o <<"!", ")">>

\* age_str: the birth year and pal's age marker, unless the year is listed as
\* one to omit
AgeStr(bday_date, bday) ==
    IF \A i \in 1..Len(OmitYears(bday)) : OmitYears(bday)[i] # StrInt(bday_date.year)
    THEN <<",", " ">> \o StrInt(bday_date.year) \o <<" ", "(", "!">> \o StrInt(bday_date.year) \o <<"!", ")">>
    ELSE <<>>

\* f"0000{bday_date.month:02d}{bday_date.day:02d} {contact.fn.value}{age_str}"
BirthdayLine(c, bday_date, bday) ==
    <<"0", "0", "0", "0">> \o Pad2(bday_date.month) \o Pad2(bday_date.day) \o <<" ">> \o c["fn"]
    \o AgeStr(bday_date, bday)

\* The loop of _convert_contact from the i-th birthday on.  strptime raises
\* ValueError on a malformed value and contact.fn AttributeError on a contact
\* without FN; either leaves the lines written so far in the file.
RECURSIVE ConvertBdays(_, _, _, _)
ConvertBdays(file, c, i, counter) ==
    IF i > Len(c["bday"])
    THEN [pal_file |-> file, raised |-> "none", counter |-> counter]
    ELSE LET bday      == c["bday"][i]
             bday_date == strptime(bday.value)
         IN  IF ~bday_date.ok
             THEN [pal_file |-> file, raised |-> "ValueError", counter |-> counter]
             ELSE IF "fn" \notin DOMAIN c
             THEN [pal_file |-> file, raised |-> "AttributeError", counter |-> counter]
             ELSE ConvertBdays(Append(file, BirthdayLine(c, bday_date, bday)),
                               c, i + 1, counter + 1)

\* _convert_contact(pal_file, contact); contact.contents.get("bday", []) is the
\* (possibly empty) list c["bday"].
_convert_contact(file, c) == ConvertBdays(file, c, 1, 0)

-----------------------------------------------------------------------------
(* Inputs of the contact conversion *)

JaneDoe == <<"J", "a", "n", "e", " ", "D", "o", "e">>

BdayValues ==
    {<<"1", "9", "9", "0", "-", "0", "5", "-", "0", "7">>, <<"2", "0", "0", "0", "-", "1", "2", "-", "2", "5">>, <<"1", "6", "0", "4", "-", "5", "-", "7">>, <<"0", "6", "0", "4", "-", "0", "2", "-", "2", "9">>, <<"-", "-", "0", "5", "0", "7">>, <<"2", "0", "0", "1", "-", "0", "2", "-", "2", "9">>}

BdayParams ==
    {<<>>,
     [p \in {"X-APPLE-OMIT-YEAR"} |-> <<<<"2", "0", "0", "0">>>>],
     [p \in {"X-APPLE-OMIT-YEAR"} |-> <<<<"1", "6", "0", "4">>, <<"1", "9", "9", "0">>>>],
     [p \in {"X-APPLE-OMIT-YEAR"} |-> <<<<"0", "6", "0", "4">>>>],
     [p \in {"X-APPLE-OMIT-YEAR"} |-> <<<<"6", "0", "4">>>>]}

BdayFields == {[value |-> v, params |-> p] : v \in BdayValues, p \in BdayParams}

SeqsUpTo(S, n) == UNION {[1..k -> S] : k \in 0..n}

\* A contact with the birthday fields b, with or without a formatted name
Contact(fn, b) == IF fn THEN [fn |-> JaneDoe, bday |-> b] ELSE [k \in {"bday"} |-> b]

-----------------------------------------------------------------------------
(* The conversion of one contact *)

InitContact ==
    /\ IdleRun
    /\ localtz = 0
    /\ \E fn \in BOOLEAN : \E b \in SeqsUpTo(BdayFields, MaxBdays) :
         contact = Contact(fn, b)
    /\ pal_file = <<>>
    /\ raised = "none"
    /\ step = "ready"
    /\ event = NoEvent
    /\ call = NoCall
    /\ result = FALSE
    /\ files = NoFiles
    /\ now = 0

ConvertContact ==
    /\ step = "ready"
    /\ \E r \in {_convert_contact(pal_file, contact)} :
           /\ pal_file' = r.pal_file
           /\ raised' = r.raised
    /\ step' = "done"
    /\ UNCHANGED <<localtz, files, now, event, contact, call, result, runVars>>

NextContact == ConvertContact

SpecContact == InitContact /\ [][NextContact]_vars

-----------------------------------------------------------------------------
(* util.py: Util.does_file_need_update *)

\* timedelta(days=180), the max_age _convert_calendar passes
MaxAge == 180

\* timedelta(days=365): events are expanded one year back and one year ahead
Window == 365

\* os.path.exists(file)
exists(file) == files[file] # <<>>

\* os.path.getmtime(file), as an instant
getmtime(file) == files[file][1].mtime

\* Mutant: a Last-Modified equal to the file's modification time counts as newer.
NeedUpdateIfNotOlder(file, response, max_age) ==
    IF ~exists(file) \/ "Last-Modified" \notin DOMAIN response.headers
    THEN TRUE
    ELSE LET url_datetime  == response.headers["Last-Modified"]
             file_datetime == getmtime(file)
         IN  IF url_datetime >= file_datetime
             THEN TRUE
             ELSE IF max_age # <<>> /\ now > file_datetime + max_age[1]
             THEN TRUE
             ELSE FALSE

\* max_age is <<>> for None and <<d>> for timedelta(days=d); the datetimes
\* compared are timezone-aware, so the comparisons are between instants.
does_file_need_update(file, response, max_age) ==
    IF ~exists(file) \/ "Last-Modified" \notin DOMAIN response.headers
    THEN TRUE
    ELSE LET url_datetime  == response.headers["Last-Modified"]
             file_datetime == getmtime(file)
         IN  IF url_datetime > file_datetime
             THEN TRUE
             ELSE IF max_age # <<>> /\ now > file_datetime + max_age[1]
             THEN TRUE
             ELSE FALSE

-----------------------------------------------------------------------------
(* The update decision on one file *)

\* Instants around the start of the clock and around one max-age later
Clock == 0..MaxClock

ClockLate == Clock \cup {t + MaxAge - 1 : t \in 1..(MaxClock + 2)}

HeaderSets ==
    {<<>>} \cup {[h \in {"Last-Modified"} |-> t] : t \in 0..(MaxClock + 1)}

InitUpdate ==
    /\ IdleRun
    /\ localtz = 0
    /\ \E f \in {<<>>} \cup {<<[mtime |-> t, lines |-> <<>>]>> : t \in Clock} :
          files = [p \in PalPaths |-> IF p = "a.pal" THEN f ELSE <<>>]
    /\ now \in ClockLate
    /\ call \in [file : {"a.pal"}, response : [headers : HeaderSets],
                 max_age : {<<>>, <<0>>, <<MaxAge>>}]
    /\ result = FALSE
    /\ step = "ready"
    /\ event = NoEvent
    /\ contact = NoContact
    /\ pal_file = <<>>
    /\ raised = "none"

CheckUpdate ==
    /\ step = "ready"
    /\ result' = does_file_need_update(call.file, call.response, call.max_age)
    /\ step' = "done"
    /\ UNCHANGED <<localtz, files, now, event, contact, call, pal_file, raised, runVars>>

NextUpdate == CheckUpdate

SpecUpdate == InitUpdate /\ [][NextUpdate]_vars

-----------------------------------------------------------------------------
(* The configured sources and what their URLs return *)

SectionKeys == {"url", "pal", "name", "shorthand"}

Friends ==
    [url |-> "https://dav.example/friends.vcf", pal |-> "a.pal",
     name |-> <<"F", "r", "i", "e", "n", "d", "s">>, shorthand |-> <<"F", "R">>]

Family ==
    [url |-> "https://dav.example/family.vcf", pal |-> "b.pal",
     name |-> <<"F", "a", "m", "i", "l", "y">>, shorthand |-> <<"F", "A">>]

\* A section without the key "name"
Nameless == [url |-> "https://dav.example/x", pal |-> "a.pal", shorthand |-> <<"X", "X">>]

Work ==
    [url |-> "https://dav.example/work.ics", pal |-> "a.pal",
     name |-> <<"W", "o", "r", "k">>, shorthand |-> <<"W", "K">>]

Home ==
    [url |-> "file:///home/user/home.ics", pal |-> "b.pal",
     name |-> <<"H", "o", "m", "e">>, shorthand |-> <<"H", "M">>]

\* Which config files exist: all; all but the default contacts.conf; none
ConfigFileSets == {ConfigPaths, ConfigPaths \ {"contacts.conf"}, {}}

\* The one line of a pal file left by an earlier program
OldLine == <<"o", "l", "d">>

\* The section lists of the config files that exist
ConfigSections ==
    [p \in ConfigPaths |->
        CASE p = "contacts.conf"     -> <<Friends, Nameless, Family>>
          [] p = "calendars.conf"    -> <<Work>>
          [] p = "my_contacts.conf"  -> <<Family>>
          [] p = "my_calendars.conf" -> <<Home>>]

Jane ==
    [fn |-> JaneDoe,
     bday |-> <<[value |-> <<"1", "9", "9", "0", "-", "0", "5", "-", "0", "7">>, params |-> <<>>],
                [value |-> <<"2", "0", "0", "0", "-", "1", "2", "-", "2", "5">>,
                 params |-> [p \in {"X-APPLE-OMIT-YEAR"} |-> <<<<"2", "0", "0", "0">>>>]]>>]

NoBirthday == [fn |-> <<"B", "o">>, bday |-> <<>>]

BadDate == [fn |-> <<"A", "l">>, bday |-> <<[value |-> <<"-", "-", "0", "5", "0", "7">>, params |-> <<>>]>>]

\* A vCard document: the contacts vobject's reader yields, and whether it then
\* raises ParseError (malformed structure) instead of ending.
ContactDocs ==
    {[contacts |-> <<NoBirthday, Jane>>, error |-> FALSE],
     [contacts |-> <<Jane, BadDate, Jane>>, error |-> FALSE],
     [contacts |-> <<Jane>>, error |-> TRUE],
     [contacts |-> <<>>, error |-> TRUE]}

Holiday == [DTSTART |-> Date(2024, 3, 1), DTEND |-> Date(2024, 3, 3), SUMMARY |-> Lunch]

Meeting ==
    [DTSTART |-> DateTime(2024, 3, 1, 9, 5, 0, <<>>),
     DTEND |-> DateTime(2024, 3, 1, 23, 59, 59, <<>>), SUMMARY |-> <<" ">>]

Untitled == [DTSTART |-> Date(2024, 3, 1), DTEND |-> Date(2024, 3, 2)]

\* An iCalendar document: whether Calendar.from_ical raises ValueError on it,
\* and the occurrences recurring_ical_events yields for the window.
CalendarDocs ==
    {[malformed |-> FALSE, events |-> <<Holiday, Meeting>>],
     [malformed |-> FALSE, events |-> <<Meeting, Untitled, Holiday>>],
     [malformed |-> TRUE, events |-> <<>>]}

\* The body of an error response: not a document of either kind
ErrorPage(docs) == {d \in docs : IF "malformed" \in DOMAIN d THEN d.malformed
                                  ELSE d.error /\ d.contacts = <<>>}

\* What requests' session.get can do: raise; return 200 with a document, with
\* or without Last-Modified (the resource was last modified before the first
\* run or at the time of the first run); return 404 with an error page.
Requests(docs) ==
    {[raises |-> r, response |-> [status_code |-> 404, headers |-> <<>>, text |-> d]] :
        r \in BOOLEAN, d \in ErrorPage(docs)}
    \cup {[raises |-> FALSE,
           response |-> [status_code |-> 200, headers |-> h, text |-> d]] :
            h \in {<<>>} \cup {[k \in {"Last-Modified"} |-> t] : t \in {0, 1}},
            d \in docs}

-----------------------------------------------------------------------------
(* util.py: Util.get_url, Util.open_config; the conversion of one source *)

\* Util.get_url: None (<<>>) if the request raised, the response otherwise,
\* whatever its status.
get_url(request) == IF request.raises THEN <<>> ELSE <<request.response>>

\* Util.open_config: None (<<>>) if the file does not exist
open_config(path) == configs[path]

\* section.get(key, None) is None for one of the four keys
Incomplete(sec) == \E k \in SectionKeys : k \notin DOMAIN sec

\* Mutant: the pal file is opened for appending.
OpenAppend(path) == IF files[path] = <<>> THEN <<>> ELSE files[path][1].lines

\* open(pal_path, "w"): the lines of the file once opened
OpenTruncate(path) == <<>>

\* pal_file.write(f"{shorthand} {name}\n")
Header(sec) == sec.shorthand \o <<" ">> \o sec.name

\* The loop of _convert_contacts over the contacts the reader yields
RECURSIVE ReadContacts(_, _, _)
ReadContacts(file, doc, i) ==
    IF i > Len(doc.contacts)
    THEN [pal_file |-> file, raised |-> IF doc.error THEN "ParseError" ELSE "none"]
    ELSE LET r == _convert_contact(file, doc.contacts[i])
         IN  IF r.raised # "none"
             THEN [pal_file |-> r.pal_file, raised |-> r.raised]
             ELSE ReadContacts(r.pal_file, doc, i + 1)

\* The loop of _convert_calendar over the expanded events
RECURSIVE ReadEvents(_, _, _)
ReadEvents(file, events, i) ==
    IF i > Len(events)
    THEN [pal_file |-> file, raised |-> "none"]
    ELSE LET r == _convert_event(file, events[i])
         IN  IF r.raised # "none" THEN r ELSE ReadEvents(r.pal_file, events, i + 1)

\* The with-block of _convert_contacts: open, header, read and convert
WriteContacts(sec, response) ==
    ReadContacts(Append(OpenTruncate(sec.pal), Header(sec)), response.text, 1)

\* The with-block of _convert_calendar: open, header, parse, convert
WriteCalendar(sec, response) ==
    IF response.text.malformed
    THEN [pal_file |-> Append(OpenTruncate(sec.pal), Header(sec)), raised |-> "ValueError"]
    ELSE ReadEvents(Append(OpenTruncate(sec.pal), Header(sec)), response.text.events, 1)

\* Mutant: calendars are checked without a max_age, like contacts.
NoMaxAge(contacts) == <<>>

\* The max_age handed to does_file_need_update: timedelta(days=180) for a
\* calendar, none (<<>>) for contacts
MaxAgeOf(contacts) == IF contacts THEN <<>> ELSE <<MaxAge>>

\* start_date and end_date of _convert_calendar: the window the recurring
\* events are expanded over; contacts have none (<<>>)
ExpansionWindow(contacts) == IF contacts THEN <<>> ELSE <<now - Window, now + Window>>

\* Mutant: writing the file leaves its modification time at the epoch.
CloseStale(lines) == <<[mtime |-> 0, lines |-> lines]>>

\* Leaving the with-block closes the file: it holds the lines written and its
\* modification time is the time of the write
Close(lines) == <<[mtime |-> now, lines |-> lines]>>

\* One call of _convert_contacts (contacts = TRUE) or _convert_calendar on the
\* section sec, the request to its URL behaving as `request`: the outcome, the
\* file written (if any) and the exception that leaves the call (if any).
ConvertSource(contacts, sec, request) ==
    LET response == get_url(request)
        max_age  == MaxAgeOf(contacts)
        quiet(o) == [outcome |-> o, write |-> <<>>, raised |-> "none",
                     response |-> IF Incomplete(sec) THEN <<>> ELSE response,
                     window |-> <<>>]
        written(w) == [outcome  |-> IF w.raised = "none" THEN "converted" ELSE "raised",
                       write    |-> Close(w.pal_file),
                       raised   |-> w.raised,
                       response |-> response,
                       window   |-> ExpansionWindow(contacts)]
    IN  IF Incomplete(sec) THEN quiet("malformed")
        ELSE IF response = <<>> THEN quiet("fetch failed")
        ELSE IF ~does_file_need_update(sec.pal, response[1], max_age)
        THEN quiet("not newer")
        ELSE IF contacts THEN written(WriteContacts(sec, response[1]))
        ELSE written(WriteCalendar(sec, response[1]))

-----------------------------------------------------------------------------
(* caldav2pal.py: main, and the two loops over a config file's sections *)

Categories ==
    <<"default_contacts", "default_calendars", "explicit_contacts", "explicit_calendars">>

\* Where main goes after the call at position p returns
After_(p) ==
    CASE p = "default_contacts"  -> "default_calendars"
      [] p = "default_calendars" -> "explicit_contacts"
      [] p = "explicit_contacts" -> "explicit_calendars"

InitRun ==
    /\ localtz = 3600
    /\ now = 1
    /\ configs \in {[p \in ConfigPaths |-> IF p \in present THEN <<ConfigSections[p]>> ELSE <<>>] :
                      present \in ConfigFileSets}
    /\ files \in {[p \in PalPaths |-> f] : f \in {<<>>, <<[mtime |-> 0, lines |-> <<OldLine>>]>>}}
    /\ args = NoArgs
    /\ pc = "main"
    /\ sections = <<>>
    /\ section = 0
    /\ exit_code = "running"
    /\ last = NoLast
    /\ processed = <<>>
    /\ runs = 1
    /\ writes = NoWrites
    /\ raised = "none"
    /\ event = NoEvent
    /\ contact = NoContact
    /\ call = NoCall
    /\ result = FALSE
    /\ pal_file = <<>>
    /\ step = "idle"

\* main: args = _parse_args(); if not args.no_default
ParseArgs ==
    /\ pc = "main"
    /\ args' \in [no_default : BOOLEAN,
                  calendars_config : {<<>>, <<"my_calendars.conf">>},
                  contacts_config : {<<>>, <<"my_contacts.conf">>}]
    /\ pc' = IF args'.no_default THEN "explicit_contacts" ELSE "default_contacts"
    /\ UNCHANGED <<localtz, files, now, raised, funVars, configs, sections, section,
                   exit_code, last, processed, runs, writes>>

\* main: if args.contacts_config is not None, not taken
NoContactsConfig ==
    /\ pc = "explicit_contacts"
    /\ section = 0
    /\ args.contacts_config = <<>>
    /\ pc' = "explicit_calendars"
    /\ UNCHANGED <<localtz, files, now, raised, funVars, configs, args, sections, section,
                   exit_code, last, processed, runs, writes>>

\* convert_contacts_to_birthdays(config_file) up to its loop
OpenContacts ==
    /\ pc \in {"default_contacts", "explicit_contacts"}
    /\ section = 0
    /\ pc = "explicit_contacts" => args.contacts_config # <<>>
    /\ LET config_path == IF pc = "explicit_contacts" THEN args.contacts_config[1]
                          ELSE "contacts.conf"
           config      == open_config(config_path)
       IN  IF config = <<>>
           THEN /\ pc' = After_(pc)
                /\ UNCHANGED <<sections, section>>
           ELSE /\ sections' = config[1]
                /\ section' = 1
                /\ pc' = pc
    /\ UNCHANGED <<localtz, files, now, raised, funVars, configs, args,
                   exit_code, last, processed, runs, writes>>

\* convert_calendars_to_events() up to its loop
OpenCalendars ==
    /\ pc = "default_calendars"
    /\ section = 0
    /\ LET config == open_config("calendars.conf")
       IN  IF config = <<>>
           THEN /\ pc' = After_(pc)
                /\ UNCHANGED <<sections, section>>
           ELSE /\ sections' = config[1]
                /\ section' = 1
                /\ pc' = pc
    /\ UNCHANGED <<localtz, files, now, raised, funVars, configs, args,
                   exit_code, last, processed, runs, writes>>

\* One iteration of a section loop: the whole call of _convert_contacts or
\* _convert_calendar.  An exception leaving the call is caught nowhere: it
\* leaves the loop and main, and the process ends with a traceback.
Convert(contacts, request) ==
    /\ section >= 1
    /\ section <= Len(sections)
    /\ \E sec \in {sections[section]} : \E r \in {ConvertSource(contacts, sec, request)} :
           /\ files' = IF r.write = <<>> THEN files
                       ELSE [files EXCEPT ![sec.pal] = r.write]
           /\ last' = [category |-> pc, index |-> section, source |-> <<sec>>,
                       response |-> r.response, outcome |-> r.outcome,
                       parsed |-> r.write # <<>>,
                       before |-> IF Incomplete(sec) THEN <<>> ELSE files[sec.pal],
                       previous |-> IF Incomplete(sec) THEN <<>> ELSE writes[sec.pal]]
           /\ processed' = Append(processed, <<pc, section>>)
           /\ writes' = IF r.write = <<>> THEN writes
                        ELSE [writes EXCEPT ![sec.pal] =
                                <<[url |-> sec.url, headers |-> r.response[1].headers,
                                   window |-> r.window, complete |-> r.raised = "none"]>>]
           /\ raised' = r.raised
           /\ IF r.raised = "none"
              THEN /\ section' = section + 1
                   /\ UNCHANGED <<pc, exit_code>>
              ELSE /\ pc' = "done"
                   /\ exit_code' = "traceback"
                   /\ UNCHANGED section
    /\ UNCHANGED <<localtz, now, funVars, configs, args, sections, runs>>

ConvertContacts ==
    /\ pc \in {"default_contacts", "explicit_contacts"}
    /\ \E request \in Requests(ContactDocs) : Convert(TRUE, request)

ConvertCalendar ==
    /\ pc = "default_calendars"
    /\ \E request \in Requests(CalendarDocs) : Convert(FALSE, request)

\* The section loop is over: the call returns to main
Return ==
    /\ pc \in {"default_contacts", "default_calendars", "explicit_contacts"}
    /\ section > Len(sections)
    /\ pc' = After_(pc)
    /\ sections' = <<>>
    /\ section' = 0
    /\ last' = NoLast
    /\ UNCHANGED <<localtz, files, now, raised, funVars, configs, args,
                   exit_code, processed, runs, writes>>

\* main: if args.calendars_config is not None:
\* convert_calendars_to_events(args.calendars_config).  The function takes no
\* parameter, so the call raises TypeError; without the flag main returns.
ExplicitCalendars ==
    /\ pc = "explicit_calendars"
    /\ pc' = "done"
    /\ IF args.calendars_config = <<>>
       THEN exit_code' = "success" /\ UNCHANGED raised
       ELSE exit_code' = "traceback" /\ raised' = "TypeError"
    /\ UNCHANGED <<localtz, files, now, funVars, configs, args, sections, section,
                   last, processed, runs, writes>>

\* The process has ended; some time later the program is started again.
Rerun ==
    /\ pc = "done"
    /\ runs < MaxRuns
    /\ \E d \in {MaxAge, MaxAge + 1} : now' = now + d
    /\ runs' = runs + 1
    /\ pc' = "main"
    /\ exit_code' = "running"
    /\ raised' = "none"
    /\ processed' = <<>>
    /\ sections' = <<>>
    /\ section' = 0
    /\ last' = NoLast
    /\ args' = NoArgs
    /\ UNCHANGED <<localtz, files, funVars, configs, writes>>

Next ==
    \/ ParseArgs
    \/ NoContactsConfig
    \/ OpenContacts
    \/ OpenCalendars
    \/ ConvertContacts
    \/ ConvertCalendar
    \/ Return
    \/ ExplicitCalendars
    \/ Rerun

Spec == InitRun /\ [][Next]_vars

-----------------------------------------------------------------------------
(* Properties of the update decision (checked under SpecUpdate) *)

\* C7: the rules in order, first match wins: file absent -> true; no
\* Last-Modified -> true; Last-Modified strictly later than the file's mtime ->
\* true; max_age given and now strictly later than mtime + max_age -> true;
\* otherwise false (so also for Last-Modified = mtime, and for max_age unset).
C7_UpdateRules ==
    step = "done" =>
        LET f       == files[call.file]
            absent  == f = <<>>
            hdrs    == call.response.headers
            noLM    == "Last-Modified" \notin DOMAIN hdrs
            given   == call.max_age # <<>>
        IN  /\ absent => result = TRUE
            /\ (~absent /\ noLM) => result = TRUE
            /\ (~absent /\ ~noLM /\ hdrs["Last-Modified"] > f[1].mtime) => result = TRUE
            /\ (~absent /\ ~noLM /\ hdrs["Last-Modified"] <= f[1].mtime
                /\ given /\ now > f[1].mtime + call.max_age[1]) => result = TRUE
            /\ (~absent /\ ~noLM /\ hdrs["Last-Modified"] <= f[1].mtime
                /\ (~given \/ now <= f[1].mtime + call.max_age[1])) => result = FALSE

\* C7 witness: with Last-Modified equal to the file's mtime and max_age 180
\* days not yet exceeded (now = mtime + 180), the decision was false.
C7_Witness ==
    /\ step = "done"
    /\ files[call.file] # <<>>
    /\ "Last-Modified" \in DOMAIN call.response.headers
    /\ call.response.headers["Last-Modified"] = files[call.file][1].mtime
    /\ call.max_age = <<MaxAge>>
    /\ now = files[call.file][1].mtime + MaxAge
    /\ result = FALSE

-----------------------------------------------------------------------------
(* Properties of the contact conversion (checked under SpecContact) *)

\* A decimal string without its leading zeros
RECURSIVE StripZeros(_)
StripZeros(s) == IF Len(s) > 1 /\ s[1] = "0" THEN StripZeros(Tail(s)) ELSE s

\* The number of leading birthday fields of contact c that are converted: those
\* before the first one whose date is malformed (or all of none, without FN)
RECURSIVE Leading(_, _)
Leading(c, i) ==
    IF i > Len(c["bday"]) \/ ~strptime(c["bday"][i].value).ok \/ "fn" \notin DOMAIN c
    THEN i - 1
    ELSE Leading(c, i + 1)

\* The line claimed for birthday field f of contact c
ClaimedBirthdayLine(c, f) ==
    LET d      == strptime(f.value)
        year   == StripZeros(SubSeq(f.value, 1, 4))
        listed == \E i \in 1..Len(OmitYears(f)) : OmitYears(f)[i] = year
    IN  <<"0", "0", "0", "0">> \o Pad2(d.month) \o Pad2(d.day) \o <<" ">> \o c["fn"]
        \o (IF listed THEN <<>> ELSE <<",", " ">> \o year \o <<" ", "(", "!">> \o year \o <<"!", ")">>)

\* C6: every birthday field converted gives the line 0000MMDD name suffix, in
\* field order, with suffix ', year (!year!)' unless the parsed year as a
\* decimal string is in the field's omit-year list; 1990-05-07 without marker
\* gives '00000507 Jane Doe, 1990 (!1990!)', 2000-12-25 with marker "2000"
\* gives '00001225 Jane Doe'.
C6_BirthdayLines ==
    step = "done" =>
        LET fs == contact["bday"]
            n  == Leading(contact, 1)
        IN  /\ Len(pal_file) = n
            /\ (raised = "none") <=> (n = Len(fs))
            /\ \A i \in 1..n :
                 /\ pal_file[i] = ClaimedBirthdayLine(contact, fs[i])
                 /\ (fs[i].value = <<"1", "9", "9", "0", "-", "0", "5", "-", "0", "7">> /\ OmitYears(fs[i]) = <<>>) =>
                      pal_file[i] = <<"0", "0", "0", "0", "0", "5", "0", "7", " ", "J", "a", "n", "e", " ", "D", "o", "e", ",", " ", "1", "9", "9", "0", " ", "(", "!", "1", "9", "9", "0", "!", ")">>
                 /\ (fs[i].value = <<"2", "0", "0", "0", "-", "1", "2", "-", "2", "5">> /\ OmitYears(fs[i]) = <<<<"2", "0", "0", "0">>>>) =>
                      pal_file[i] = <<"0", "0", "0", "0", "1", "2", "2", "5", " ", "J", "a", "n", "e", " ", "D", "o", "e">>
                 /\ (fs[i].value = <<"1", "6", "0", "4", "-", "5", "-", "7">> /\ OmitYears(fs[i]) = <<>>) =>
                      pal_file[i] = <<"0", "0", "0", "0", "0", "5", "0", "7", " ", "J", "a", "n", "e", " ", "D", "o", "e", ",", " ", "1", "6", "0", "4", " ", "(", "!", "1", "6", "0", "4", "!", ")">>

\* C6 witness: a contact with the two birthdays of the examples was converted
\* to the two example lines.
C6_Witness ==
    /\ step = "done"
    /\ raised = "none"
    /\ Len(contact["bday"]) = 2
    /\ contact["bday"][1] = [value |-> <<"1", "9", "9", "0", "-", "0", "5", "-", "0", "7">>, params |-> <<>>]
    /\ contact["bday"][2].value = <<"2", "0", "0", "0", "-", "1", "2", "-", "2", "5">>
    /\ OmitYears(contact["bday"][2]) = <<<<"2", "0", "0", "0">>>>
    /\ pal_file = <<<<"0", "0", "0", "0", "0", "5", "0", "7", " ", "J", "a", "n", "e", " ", "D", "o", "e", ",", " ", "1", "9", "9", "0", " ", "(", "!", "1", "9", "9", "0", "!", ")">>, <<"0", "0", "0", "0", "1", "2", "2", "5", " ", "J", "a", "n", "e", " ", "D", "o", "e">>>>

-----------------------------------------------------------------------------
(* Properties of the event conversion (checked under SpecEvent) *)

\* ASCII order on the characters of date and time fields: digits, then ':'
Ord(c) == IF IsDigit(c) THEN 47 + (CHOOSE i \in 1..10 : Digits[i] = c) ELSE 58

RECURSIVE LexLeq(_, _)
LexLeq(a, b) ==
    IF a = <<>> THEN TRUE
    ELSE IF b = <<>> THEN FALSE
    ELSE IF a[1] = b[1] THEN LexLeq(Tail(a), Tail(b))
    ELSE Ord(a[1]) < Ord(b[1])

\* YYYYMMDD of a calendar date, from its fields
Ymd(d) == Pad4(d.year) \o Pad2(d.month) \o Pad2(d.day)

\* An event was converted and its line written
Rendered == step = "done" /\ raised = "none" /\ "SUMMARY" \in DOMAIN event

\* The one line in the file after the conversion
Line == pal_file[1]

DailyPrefix == <<"D", "A", "I", "L", "Y", ":">>

HasDailyPrefix(l) == Len(l) >= 6 /\ SubSeq(l, 1, 6) = DailyPrefix

\* C1: every converted occurrence gets exactly one line, chosen by (all-day,
\* multi-day): DAILY:start:end title / start title / start [start_time] title /
\* start [start_time-end_time] title; all-day iff DTSTART and DTEND are both
\* date-only, multi-day iff the local dates of start and clamped end differ.
C1_FourCases ==
    Rendered =>
        LET s       == _get_start_datetime(event)
            e       == _get_end_datetime(event)
            allDay  == event["DTSTART"].type = "date" /\ event["DTEND"].type = "date"
            multi   == <<s.year, s.month, s.day>> # <<e.year, e.month, e.day>>
            title   == EventName(event)
        IN  /\ Len(pal_file) = 1
            /\ (allDay /\ multi) =>
                 Line = DailyPrefix \o DateField(s) \o <<":">> \o DateField(e)
                        \o <<" ">> \o title
            /\ (allDay /\ ~multi) => Line = DateField(s) \o <<" ">> \o title
            /\ (~allDay /\ multi) =>
                 Line = DateField(s) \o <<" ", "[">> \o TimeField(s) \o <<"]", " ">>
                        \o title
            /\ (~allDay /\ ~multi) =>
                 Line = DateField(s) \o <<" ", "[">> \o TimeField(s) \o <<"-">>
                        \o TimeField(e) \o <<"]", " ">> \o title

\* C1 witness: a date-only start with a date-time end on a later local day was
\* rendered as a timed multi-day line.
C1_Witness ==
    /\ Rendered
    /\ event["DTSTART"].type = "date"
    /\ event["DTEND"].type = "datetime"
    /\ DateOf(_get_start_datetime(event)) # DateOf(_get_end_datetime(event))
    /\ Line[10] = "["
    /\ Line[16] = "]"

\* C2: a date-only DTEND is exclusive.  For an all-day event whose DTEND is
\* more than one day after DTSTART the line is DAILY:{DTSTART}:{DTEND - 1 day};
\* with DTEND = DTSTART + 1 day it is the single-day line; in every DAILY line
\* the second date is not before the first; 2024-03-01..2024-03-03 renders
\* DAILY:20240301:20240302.
C2_ExclusiveEnd ==
    (Rendered /\ event["DTSTART"].type = "date" /\ event["DTEND"].type = "date") =>
        LET ds    == event["DTSTART"]
            de    == event["DTEND"]
            title == EventName(event)
            final == fromordinal(toordinal(de) - 1)
        IN  /\ toordinal(de) > toordinal(ds) + 1 =>
                 Line = DailyPrefix \o Ymd(ds) \o <<":">> \o Ymd(final) \o <<" ">> \o title
            /\ toordinal(de) = toordinal(ds) + 1 => Line = Ymd(ds) \o <<" ">> \o title
            /\ HasDailyPrefix(Line) =>
                 LexLeq(SubSeq(Line, 7, 14), SubSeq(Line, 16, 23))
            /\ (ds = Date(2024, 3, 1) /\ de = Date(2024, 3, 3) /\ event["SUMMARY"] = Lunch) =>
                 Line = <<"D", "A", "I", "L", "Y", ":",
                          "2", "0", "2", "4", "0", "3", "0", "1", ":",
                          "2", "0", "2", "4", "0", "3", "0", "2", " ">> \o Lunch

\* C2 witness: the all-day event 2024-03-01..2024-03-03 was rendered as a DAILY
\* line.
C2_Witness ==
    /\ Rendered
    /\ event["DTSTART"] = Date(2024, 3, 1)
    /\ event["DTEND"] = Date(2024, 3, 3)
    /\ event["SUMMARY"] = Lunch
    /\ HasDailyPrefix(Line)

\* The date and time fields of a rendered line, by position
IsHHMM(t) == Len(t) = 4 /\ AllDigits(t)

IsHHcMM(t) ==
    /\ Len(t) = 5
    /\ IsDigit(t[1]) /\ IsDigit(t[2]) /\ t[3] = ":" /\ IsDigit(t[4]) /\ IsDigit(t[5])
    /\ LexLeq(SubSeq(t, 1, 2), <<"2", "3">>)
    /\ LexLeq(SubSeq(t, 4, 5), <<"5", "9">>)

\* The text between '[' (position 10 of a timed line) and the next ']'
Bracket(l) ==
    LET close == CHOOSE i \in 11..Len(l) : l[i] = "]" /\ \A j \in 11..(i - 1) : l[j] # "]"
    IN  SubSeq(l, 11, close - 1)

DateFieldsOk(l, allDay) ==
    IF allDay /\ HasDailyPrefix(l)
    THEN /\ AllDigits(SubSeq(l, 7, 14)) /\ l[15] = ":"
         /\ AllDigits(SubSeq(l, 16, 23)) /\ l[24] = " "
    ELSE AllDigits(SubSeq(l, 1, 8)) /\ l[9] = " "

Earlier(a, b) ==
    LET ia == Instant(a)
        ib == Instant(b)
    IN  ia[1] < ib[1] \/ (ia[1] = ib[1] /\ ia[2] < ib[2])

\* C4: the end instant is never earlier than the start instant; when the
\* computed end (a date-only end reduced by one second included) precedes the
\* start, the end is the start and the line written is a single-day line.
C4_EndNotBeforeStart ==
    LET s   == _get_start_datetime(event)
        e   == _get_end_datetime(event)
        raw == EndBeforeClamp(event)
    IN  /\ ~Earlier(e, s)
        /\ Earlier(raw, s) =>
             /\ e = s
             /\ Rendered =>
                  IF event["DTSTART"].type = "date" /\ event["DTEND"].type = "date"
                  THEN Line = DateField(s) \o <<" ">> \o EventName(event)
                  ELSE Line = DateField(s) \o <<" ", "[">> \o TimeField(s) \o <<"-">>
                              \o TimeField(s) \o <<"]", " ">> \o EventName(event)

\* C4 witness: an event whose DTEND lies at least a day before its DTSTART was
\* rendered.
C4_Witness ==
    /\ Rendered
    /\ toordinal(event["DTEND"]) + 1 < toordinal(event["DTSTART"])
    /\ Earlier(EndBeforeClamp(event), _get_start_datetime(event))
    /\ _get_end_datetime(event) = _get_start_datetime(event)

\* C5: the title written is the summary, or '[Event without title]' when the
\* summary is absent, empty or whitespace-only; a line is produced in all cases.
C5_TitleOrPlaceholder ==
    step = "done" =>
        LET absent == "SUMMARY" \notin DOMAIN event
            title  == IF absent THEN NoTitle
                      ELSE IF event["SUMMARY"] = <<>> \/ IsSpace(event["SUMMARY"])
                           THEN NoTitle
                           ELSE event["SUMMARY"]
        IN  /\ Len(pal_file) = 1
            /\ Len(Line) > Len(title)
            /\ SubSeq(Line, Len(Line) - Len(title), Len(Line)) = <<" ">> \o title

-----------------------------------------------------------------------------
(* Properties of a run (checked under Spec) *)

ContactCategories == {"default_contacts", "explicit_contacts"}

\* The birthday fields of the contacts cs in encounter order, each with its
\* contact
RECURSIVE AllBirthdays(_)
AllBirthdays(cs) ==
    IF cs = <<>> THEN <<>>
    ELSE [i \in 1..Len(cs[1]["bday"]) |-> <<cs[1], cs[1]["bday"][i]>>]
         \o AllBirthdays(Tail(cs))

\* C8: after a conversion that ran to completion the source's pal file is the
\* header '{shorthand} {name}' followed by exactly one line per occurrence
\* (calendars) or per birthday field (contacts), in encounter order, and holds
\* nothing of its previous content.
C8_FullRewrite ==
    last.outcome = "converted" =>
        LET sec   == last.source[1]
            doc   == last.response[1].text
            lines == files[sec.pal][1].lines
        IN  /\ files[sec.pal] # <<>>
            /\ Len(lines) >= 1
            /\ lines[1] = sec.shorthand \o <<" ">> \o sec.name
            /\ IF last.category \in ContactCategories
               THEN LET bs == AllBirthdays(doc.contacts)
                    IN  /\ Len(lines) = 1 + Len(bs)
                        /\ \A k \in 1..Len(bs) :
                             lines[1 + k] = ClaimedBirthdayLine(bs[k][1], bs[k][2])
               ELSE /\ Len(lines) = 1 + Len(doc.events)
                    /\ \A k \in 1..Len(doc.events) :
                         lines[1 + k] = EventLine(doc.events[k])

\* C8 witness: a contacts file that held other content was rewritten from a
\* document whose first contact has no birthday and whose second has two.
C8_Witness ==
    /\ last.outcome = "converted"
    /\ last.category \in ContactCategories
    /\ last.before # <<>>
    /\ last.before[1].lines = <<OldLine>>
    /\ last.response[1].text.contacts = <<NoBirthday, Jane>>
    /\ files[last.source[1].pal][1].lines =
         <<<<"F", "R", " ", "F", "r", "i", "e", "n", "d", "s">>, <<"0", "0", "0", "0", "0", "5", "0", "7", " ", "J", "a", "n", "e", " ", "D", "o", "e", ",", " ", "1", "9", "9", "0", " ", "(", "!", "1", "9", "9", "0", "!", ")">>, <<"0", "0", "0", "0", "1", "2", "2", "5", " ", "J", "a", "n", "e", " ", "D", "o", "e">>>>

\* The exceptions of a malformed birthday date (strptime) or a malformed
\* document (icalendar's from_ical, vobject's reader)
ParseErrors == {"ValueError", "ParseError"}

\* The config file a category reads, <<>> if the command line does not ask for
\* the category
ConfigOf(cat) ==
    CASE cat = "default_contacts"   -> IF args.no_default THEN <<>> ELSE <<"contacts.conf">>
      [] cat = "default_calendars"  -> IF args.no_default THEN <<>> ELSE <<"calendars.conf">>
      [] cat = "explicit_contacts"  -> args.contacts_config
      [] cat = "explicit_calendars" -> args.calendars_config

\* The source processed last has a sibling after it in its configuration
HasLaterSibling ==
    /\ last.category # "none"
    /\ ConfigOf(last.category) # <<>>
    /\ configs[ConfigOf(last.category)[1]] # <<>>
    /\ last.index < Len(configs[ConfigOf(last.category)[1]][1])

\* C9: a parse error in one source aborts only that source: in a run in which
\* one was raised by a source that has a sibling after it, every section of
\* every category the command line asks for has still been processed when the
\* run ends, and the process exits successfully.
C9_ParseErrorIsolated ==
    (/\ pc = "done"
     /\ raised \in ParseErrors
     /\ args.calendars_config = <<>>
     /\ HasLaterSibling) =>
        /\ exit_code = "success"
        /\ \A c \in 1..Len(Categories) :
             LET cat == Categories[c]
             IN  (ConfigOf(cat) # <<>> /\ configs[ConfigOf(cat)[1]] # <<>>) =>
                    \A i \in 1..Len(configs[ConfigOf(cat)[1]][1]) :
                       \E k \in 1..Len(processed) : processed[k] = <<cat, i>>

\* The fetch of the latest source failed: the request raised, or the response
\* has a non-success status
FetchFailed ==
    \/ last.outcome = "fetch failed"
    \/ /\ last.response # <<>>
       /\ last.response[1].status_code \notin 200..299

\* C10: when fetching a source fails (transport error or non-success status)
\* its pal file is neither created nor modified, the body is not parsed, and
\* processing continues with the next source.
C10_FetchFailureSkips ==
    FetchFailed =>
        /\ files[last.source[1].pal] = last.before
        /\ ~last.parsed
        /\ exit_code # "traceback"
        /\ section = last.index + 1


\* The positions <<cat, 1>> .. <<cat, n>> of the sections of category cat, empty
\* if the command line does not ask for it or its config file does not exist
SectionsOf(cat) ==
    IF ConfigOf(cat) = <<>> \/ configs[ConfigOf(cat)[1]] = <<>>
    THEN <<>>
    ELSE [i \in 1..Len(configs[ConfigOf(cat)[1]][1]) |-> <<cat, i>>]

\* What the command line asks the run to process, in main's order
Requested ==
    SectionsOf(Categories[1]) \o SectionsOf(Categories[2])
    \o SectionsOf(Categories[3]) \o SectionsOf(Categories[4])

\* C11: the command line drives the run: when the process has ended and no
\* source raised an exception, it has processed exactly the sources of both
\* default configs unless no-default is given, then those of the explicit
\* contacts config and those of the explicit calendars config if given, and it
\* has completed normally.
C11_CommandLine ==
    (pc = "done" /\ raised \in {"none", "TypeError"}) =>
        /\ exit_code = "success"
        /\ processed = Requested

\* The fetch of the source processed last succeeded
FetchedOk ==
    /\ last.response # <<>>
    /\ last.response[1].status_code \in 200..299

\* w records a conversion of the source processed last that ran to completion
OwnComplete(w) ==
    /\ w # <<>>
    /\ w[1].url = last.source[1].url
    /\ w[1].complete

\* C12: calendars are checked with max_age 180 days, contacts with none.  When
\* a calendar has been fetched successfully and its pal file is as a completed
\* conversion of that calendar left it, the file was rendered with an expansion
\* window that ends at least 185 = 365 - 180 days after the current time,
\* whatever the remote Last-Modified.  When a contacts source is fetched with
\* the Last-Modified its pal file was converted from, the file is not
\* rewritten.
C12_WindowNeverRunsOut ==
    /\ Window - MaxAge = 185
    /\ (/\ last.category = "default_calendars"
        /\ FetchedOk
        /\ OwnComplete(writes[last.source[1].pal])) =>
            /\ last.outcome \in {"converted", "not newer"}
            /\ writes[last.source[1].pal][1].window[2] >= now + 185
    /\ (/\ last.category \in ContactCategories
        /\ FetchedOk
        /\ OwnComplete(last.previous)
        /\ "Last-Modified" \in DOMAIN last.response[1].headers
        /\ last.response[1].headers = last.previous[1].headers) =>
            /\ last.outcome = "not newer"
            /\ files[last.source[1].pal] = last.before
            /\ writes[last.source[1].pal] = last.previous

\* C12 witness: in a second run, exactly 180 days after the calendar was
\* converted, the calendar is fetched with an unchanged Last-Modified and is not
\* reconverted; the window of its file ends exactly 185 days from now.
C12_Witness ==
    /\ runs = 2
    /\ last.category = "default_calendars"
    /\ FetchedOk
    /\ "Last-Modified" \in DOMAIN last.response[1].headers
    /\ last.outcome = "not newer"
    /\ OwnComplete(writes[last.source[1].pal])
    /\ last.response[1].headers = writes[last.source[1].pal][1].headers
    /\ files[last.source[1].pal][1].mtime + MaxAge = now
    /\ writes[last.source[1].pal][1].window[2] = now + 185

\* The number of leading birthday fields of bs (pairs <<contact, field>>) whose
\* date is well-formed
RECURSIVE WellFormedPrefix(_, _)
WellFormedPrefix(bs, i) ==
    IF i > Len(bs) \/ ~strptime(bs[i][2].value).ok THEN i - 1
    ELSE WellFormedPrefix(bs, i + 1)

\* The lines rendered from the document of the source processed last before a
\* parse error stopped the conversion: for contacts the birthdays before the
\* first malformed date (all of them if the document's structure is what is
\* malformed), for a calendar none (the document is parsed as a whole first)
RenderedBeforeFailure ==
    IF last.category \in ContactCategories
    THEN LET bs == AllBirthdays(last.response[1].text.contacts)
         IN  [k \in 1..WellFormedPrefix(bs, 1) |-> ClaimedBirthdayLine(bs[k][1], bs[k][2])]
    ELSE <<>>

\* C13: the pal file is truncated and its header written before the document
\* is parsed.  (a) When a conversion aborts with a parse error, the file holds
\* the header and the lines rendered before the failure, nothing of its
\* previous content, and its modification time is the time of the write.
\* (b) When the source of a file left by an aborted conversion is fetched
\* again with the same Last-Modified, not later than the file's modification
\* time and within max_age, the source is not reconverted and the partial file
\* stays as it is.
C13_PartialFilePersists ==
    /\ (last.outcome = "raised" /\ raised \in ParseErrors) =>
          LET sec == last.source[1]
              f   == files[sec.pal]
          IN  /\ f # <<>>
              /\ f[1].lines = <<Header(sec)>> \o RenderedBeforeFailure
              /\ f[1].mtime = now
              /\ writes[sec.pal] # <<>>
              /\ ~writes[sec.pal][1].complete
    /\ (/\ last.previous # <<>>
        /\ last.previous[1].url = last.source[1].url
        /\ ~last.previous[1].complete
        /\ FetchedOk
        /\ "Last-Modified" \in DOMAIN last.response[1].headers
        /\ last.response[1].headers = last.previous[1].headers
        /\ last.response[1].headers["Last-Modified"] <= last.before[1].mtime
        /\ (last.category \in ContactCategories
            \/ now <= last.before[1].mtime + MaxAge)) =>
            /\ last.outcome = "not newer"
            /\ files[last.source[1].pal] = last.before

\* C13 witness: a contacts file that an aborted conversion left with its
\* header and two birthday lines (the third birthday's date was malformed) is
\* found unchanged after the source was fetched again in the next run.
C13_Witness ==
    /\ runs = 2
    /\ last.category \in ContactCategories
    /\ last.previous # <<>>
    /\ last.previous[1].url = last.source[1].url
    /\ ~last.previous[1].complete
    /\ FetchedOk
    /\ last.response[1].text.contacts = <<Jane, BadDate, Jane>>
    /\ last.outcome = "not newer"
    /\ Len(files[last.source[1].pal][1].lines) = 3
    /\ files[last.source[1].pal][1].lines[1] = Header(last.source[1])
    /\ files[last.source[1].pal][1].mtime < now
=============================================================================
